---- MODULE Spec2Model ----
(***************************************************************************)
(* Model of the LLM diagnostic dashboard backend: the ModelManager         *)
(* (backend/app/utils/model_manager.py), which loads and unloads models    *)
(* under the max_models bound, and the diagnostic test runner              *)
(* (backend/app/api/tests.py), which runs test jobs as asyncio tasks.      *)
(*                                                                         *)
(* The program runs on one asyncio event loop: a coroutine runs without    *)
(* interruption until it awaits something that really suspends.  Each      *)
(* action below is one such uninterrupted segment of a request handler or  *)
(* of a background task.                                                   *)
(***************************************************************************)
EXTENDS Integers, Sequences, FiniteSets, TLC

(***************************************************************************)
(* Bounds of the model                                                     *)
(***************************************************************************)
\* datetime.now() is a clock that every read advances; load_model is not
\* called once the clock has reached MaxTime
MaxTime == 3

\* The clients that send load requests; each waits for the response to its
\* request, so at most this many load_model calls are in progress at once.
LoadClients == { "client1", "client2" }

(***************************************************************************)
(* Configuration                                                           *)
(***************************************************************************)
\* ModelManager.max_models = settings.MAX_MODELS_IN_MEMORY, a setting read
\* from the environment (default 3); run here at 2, with three model ids.
max_models == 2

(***************************************************************************)
(* Values                                                                  *)
(***************************************************************************)
\* Python's None for Optional[str] ids / Optional[datetime] / Optional[str] errors
NoId == <<>>
NoTime == -1
NoError == "None"

\* Strings are sequences of one-character strings.
ModelNames == { <<"a">>, <<"b">>, <<"a", "/", "b">>, <<"a", "-", "b">> }
ModelIds == { <<"a">>, <<"b">>, <<"a", "_", "b">> }
Providers == { "huggingface_local", "huggingface_api", "ollama", "other" }

\* The load requests of the model (LoadModelRequest): model "a" is loaded
\* locally, the others through Ollama; "other" is a provider the
\* manager does not support.  A request names no id, or names one explicitly.
LoadRequest(model_name, provider, model_id) ==
    [ model_name |-> model_name, provider |-> provider, model_id |-> model_id ]
LoadRequests ==
    { LoadRequest(<<"a">>, p, NoId) : p \in { "huggingface_local", "other" } }
      \cup { LoadRequest(n, p, NoId) : n \in ModelNames \ { <<"a">> }, p \in { "ollama", "other" } }
      \cup { LoadRequest(<<"a">>, "ollama", k) : k \in ModelIds \ { <<"a">> } }

\* memory_after - memory_before, in MB: the resident-memory delta of a load.
\* Only local weights occupy process memory; no decision reads the value.
MemoryDelta(provider) == IF provider = "huggingface_local" THEN 1 ELSE 0

\* str.replace(old, new) for one-character old/new
RECURSIVE Replace(_, _, _)
Replace(s, old, new) ==
    IF s = <<>> THEN <<>>
    ELSE <<IF Head(s) = old THEN new ELSE Head(s)>> \o Replace(Tail(s), old, new)

\* model_name.replace("/", "_").replace("-", "_")
DeriveId(model_name) == Replace(Replace(model_name, "/", "_"), "-", "_")

ResolveId(model_name, mid) == IF mid = NoId THEN DeriveId(model_name) ELSE mid

(***************************************************************************)
(* State                                                                   *)
(***************************************************************************)
\* The values uuid.uuid4() returns, in the order it returns them
Uuids == << "u1", "u2" >>
NoTest == "None"

VARIABLES
    loaded_models,  \* ModelManager.loaded_models: model_id -> ModelInfo
    in_flight,      \* model_id -> number of load_model calls suspended in _load_ollama_model
    now,            \* the value datetime.now() returns
    last,           \* outcome of the latest handler segment (what it returned or raised)
    plain_run,      \* TRUE while the calls so far are only completed, successful,
                    \* non-overlapping load_model calls for pairwise distinct new ids
    test_results,   \* tests.py test_results: test_id -> the test run's record
    running_tests,  \* tests.py running_tests: the test ids that have a task handle
    tasks,          \* the asyncio tasks created for test runs: test_id -> position
    uuids           \* the values uuid.uuid4() is still to return, in order

pool_vars == <<loaded_models, in_flight, plain_run>>
test_vars == <<test_results, running_tests, tasks, uuids>>
vars == <<loaded_models, in_flight, now, last, plain_run,
          test_results, running_tests, tasks, uuids>>

\* ModelInfo as the manager's decisions read it.  pipeline stands for the
\* tokenizer / model / pipeline handles, which are set and cleared together.
ModelInfo(provider, pipeline, loaded_at, mem, is_loaded, error) ==
    [ provider |-> provider, pipeline |-> pipeline, loaded_at |-> loaded_at,
      memory_usage_mb |-> mem, is_loaded |-> is_loaded, error |-> error ]

Registered == DOMAIN loaded_models

IsLoaded(reg, k) == k \in DOMAIN reg /\ reg[k].is_loaded

\* dict assignment d[k] = v
DictPut(reg, k, v) == [ x \in (DOMAIN reg) \cup {k} |-> IF x = k THEN v ELSE reg[x] ]

\* get_loaded_models: the ids with is_loaded
get_loaded_models(reg) == { k \in DOMAIN reg : reg[k].is_loaded }

(***************************************************************************)
(* unload_model                                                            *)
(***************************************************************************)
\* The return value of unload_model(model_id).  gc.collect() and
\* torch.cuda.empty_cache() are taken not to raise, so the except branch
\* (return False) is not taken.
unload_returns(reg, model_id) == model_id \in DOMAIN reg

\* The fields unload_model changes on a ModelInfo
UnloadedInfo(info) == [ info EXCEPT !.is_loaded = FALSE, !.pipeline = FALSE ]

\* The registry after unload_model(model_id)
unload_model(reg, model_id) ==
    IF model_id \notin DOMAIN reg THEN reg
    ELSE [ reg EXCEPT ![model_id] = UnloadedInfo(reg[model_id]) ]

(***************************************************************************)
(* _free_memory_if_needed                                                  *)
(***************************************************************************)
\* list.sort(key=loaded_at) of the candidates; the clock gives every load
\* its own loaded_at, so the order of equal keys plays no part
RECURSIVE SortByLoadedAt(_, _)
SortByLoadedAt(reg, ks) ==
    IF ks = {} THEN <<>>
    ELSE LET k == CHOOSE x \in ks : \A y \in ks : reg[x].loaded_at <= reg[y].loaded_at
         IN  <<k>> \o SortByLoadedAt(reg, ks \ {k})

loaded_count(reg) == Cardinality({ k \in DOMAIN reg : reg[k].is_loaded })

\* Faulty variant: the capacity test is off by one and frees a slot too early
NeedsFreeing_early(reg) == loaded_count(reg) >= max_models - 1

\* Whether _free_memory_if_needed looks for a model to unload
NeedsFreeing(reg) == loaded_count(reg) >= max_models

\* Faulty variant: the sort is reversed: the most recently loaded model is unloaded
model_to_unload_newest(reg) ==
    IF NeedsFreeing(reg)
    THEN LET candidates == { k \in DOMAIN reg :
                                reg[k].is_loaded /\ reg[k].loaded_at # NoTime }
             sorted == SortByLoadedAt(reg, candidates)
         IN  IF sorted # <<>> THEN sorted[Len(sorted)] ELSE NoId
    ELSE NoId

\* The model _free_memory_if_needed unloads, or NoId
model_to_unload(reg) ==
    IF NeedsFreeing(reg)
    THEN LET candidates == { k \in DOMAIN reg :
                                reg[k].is_loaded /\ reg[k].loaded_at # NoTime }
             sorted == SortByLoadedAt(reg, candidates)
         IN  IF sorted # <<>> THEN sorted[1] ELSE NoId
    ELSE NoId

\* The registry after _free_memory_if_needed
free_memory_if_needed(reg) ==
    LET victim == model_to_unload(reg)
    IN  IF victim = NoId THEN reg ELSE unload_model(reg, victim)

(***************************************************************************)
(* load_model                                                              *)
(***************************************************************************)
\* Faulty variant: the "already loaded" check is missing
already_loaded_unchecked(reg, model_id) == FALSE

\* The early return of load_model: the id is registered and loaded
already_loaded(reg, model_id) == model_id \in DOMAIN reg /\ reg[model_id].is_loaded

\* Faulty variant: the model is registered as loaded without its loaded_at
LoadedInfo_undated(provider, t) ==
    ModelInfo(provider, provider = "huggingface_local", NoTime, MemoryDelta(provider), TRUE, NoError)

\* The ModelInfo a successful load registers
LoadedInfo(provider, t) ==
    ModelInfo(provider, provider = "huggingface_local", t, MemoryDelta(provider), TRUE, NoError)

\* Faulty variant: the error is recorded only for an id that is already registered
store_error_known_only(reg, model_id, provider, error_msg) ==
    IF model_id \notin DOMAIN reg
    THEN reg
    ELSE [ reg EXCEPT ![model_id].error = error_msg, ![model_id].is_loaded = FALSE ]

\* The except branch of load_model: record the error
store_error(reg, model_id, provider, error_msg) ==
    IF model_id \notin DOMAIN reg
    THEN DictPut(reg, model_id, ModelInfo(provider, FALSE, NoTime, 0, FALSE, error_msg))
    ELSE [ reg EXCEPT ![model_id].error = error_msg, ![model_id].is_loaded = FALSE ]

\* What the provider's loader does in the segment that starts the call:
\* "loaded" (it returned a ModelInfo), "raised", or "suspended" (awaiting Ollama)
LoaderOutcomes(provider) ==
    CASE provider = "huggingface_local" -> { "loaded", "raised" }
      [] provider = "huggingface_api"   -> { "loaded" }
      [] provider = "ollama"            -> { "suspended" }
      [] OTHER                          -> { "raised" }

ErrorMessage(provider) ==
    IF provider \in { "huggingface_local", "huggingface_api", "ollama" }
    THEN "Failed to load model: backend error"
    ELSE "Failed to load model: Unsupported provider"

InFlightTotal == LET RECURSIVE Sum(_)
                     Sum(S) == IF S = {} THEN 0
                               ELSE LET k == CHOOSE x \in S : TRUE
                                    IN  in_flight[k] + Sum(S \ {k})
                 IN  Sum(ModelIds)

Event(op, model_id, ret) == [ op |-> op, model_id |-> model_id, ret |-> ret ]

\* load_model from its entry to its return, its raise, or its suspension in
\* the Ollama request
LoadModel(model_name, provider, mid) ==
    LET model_id == ResolveId(model_name, mid)
        freed == free_memory_if_needed(loaded_models)
    IN
    /\ now < MaxTime
    /\ UNCHANGED test_vars
    /\ \/ /\ already_loaded(loaded_models, model_id)
          /\ last' = Event("load", model_id, "ok")
          /\ plain_run' = FALSE
          /\ UNCHANGED <<loaded_models, in_flight, now>>
       \/ /\ ~already_loaded(loaded_models, model_id)
          /\ \E outcome \in LoaderOutcomes(provider) :
               CASE outcome = "loaded" ->
                      /\ loaded_models' =
                            DictPut(freed, model_id, LoadedInfo(provider, now))
                      /\ now' = now + 1
                      /\ in_flight' = in_flight
                      /\ last' = Event("load", model_id, "ok")
                      /\ plain_run' = (plain_run /\ InFlightTotal = 0
                                         /\ model_id \notin Registered)
                 [] outcome = "raised" ->
                      /\ loaded_models' =
                            store_error(freed, model_id, provider, ErrorMessage(provider))
                      /\ last' = Event("load", model_id, "raised")
                      /\ plain_run' = FALSE
                      /\ UNCHANGED <<in_flight, now>>
                 [] outcome = "suspended" ->
                      /\ InFlightTotal < Cardinality(LoadClients)
                      /\ loaded_models' = freed
                      /\ in_flight' = [ in_flight EXCEPT ![model_id] = @ + 1 ]
                      /\ last' = Event("load", model_id, "suspended")
                      /\ plain_run' = (plain_run /\ InFlightTotal = 0
                                         /\ model_id \notin Registered)
                      /\ now' = now

\* load_model resumed after the Ollama request: the request succeeded
\* (register the model) or failed (the except branch)
LoadResume(model_id, ok) ==
    /\ in_flight[model_id] > 0
    /\ in_flight' = [ in_flight EXCEPT ![model_id] = @ - 1 ]
    /\ UNCHANGED test_vars
    /\ \/ /\ ok
          /\ loaded_models' = DictPut(loaded_models, model_id, LoadedInfo("ollama", now))
          /\ now' = now + 1
          /\ last' = Event("load", model_id, "ok")
          /\ plain_run' = plain_run
       \/ /\ ~ok
          /\ loaded_models' =
                store_error(loaded_models, model_id, "ollama", ErrorMessage("ollama"))
          /\ now' = now
          /\ last' = Event("load", model_id, "raised")
          /\ plain_run' = FALSE

\* POST /unload/{model_id}
UnloadModel(model_id) ==
    /\ loaded_models' = unload_model(loaded_models, model_id)
    /\ last' = Event("unload", model_id,
                     IF unload_returns(loaded_models, model_id) THEN "True" ELSE "False")
    /\ plain_run' = FALSE
    /\ UNCHANGED <<in_flight, now>>
    /\ UNCHANGED test_vars

\* Faulty variant: generate_text does not test is_loaded
GenerateOutcomes_no_loaded_check(reg, model_id) ==
    IF model_id \notin DOMAIN reg THEN { "not found" }
    ELSE IF reg[model_id].provider \in { "huggingface_local", "ollama" }
         THEN { "text", "backend error" }
         ELSE { "not implemented" }

\* generate_text: what the call returns or raises.  A backend call (the
\* pipeline run in the executor, the Ollama request) returns text or raises.
GenerateOutcomes(reg, model_id) ==
    IF model_id \notin DOMAIN reg THEN { "not found" }
    ELSE IF ~reg[model_id].is_loaded THEN { "is not loaded" }
    ELSE IF reg[model_id].provider \in { "huggingface_local", "ollama" }
         THEN { "text", "backend error" }
         ELSE { "not implemented" }

\* Faulty variant: a use refreshes loaded_at, as in a pool that evicts the
\* least recently used model
generate_text_registry_touched(reg, model_id) ==
    IF IsLoaded(reg, model_id)
    THEN [ reg EXCEPT ![model_id].loaded_at = @ + 1 ]
    ELSE reg

\* The registry after generate_text: the call reads the entry of the model
\* and writes nothing
generate_text_registry(reg, model_id) == reg

\* POST /generate
GenerateText(model_id) ==
    /\ \E ret \in GenerateOutcomes(loaded_models, model_id) :
          last' = Event("generate", model_id, ret)
    /\ loaded_models' = generate_text_registry(loaded_models, model_id)
    /\ UNCHANGED <<in_flight, now, plain_run>>
    /\ UNCHANGED test_vars

Init ==
    /\ loaded_models = << >>
    /\ in_flight = [ k \in ModelIds |-> 0 ]
    /\ now = 0
    /\ last = Event("init", NoId, "ok")
    /\ plain_run = TRUE
    /\ test_results = << >>
    /\ running_tests = {}
    /\ tasks = << >>
    /\ uuids = Uuids

Next ==
    \/ \E r \in LoadRequests : LoadModel(r.model_name, r.provider, r.model_id)
    \/ \E k \in ModelIds, ok \in BOOLEAN : LoadResume(k, ok)
    \/ \E k \in ModelIds : UnloadModel(k)
    \/ \E k \in ModelIds : GenerateText(k)

Spec == Init /\ [][Next]_vars

(***************************************************************************)
(* Diagnostic test runs (api/tests.py)                                     *)
(***************************************************************************)
\* settings.AVAILABLE_TESTS keys
AVAILABLE_TESTS == { "hallucination", "bias", "toxicity", "consistency", "performance" }

\* Rational numbers (the floats of progress and of the scores), in lowest terms
RECURSIVE GCD(_, _)
GCD(a, b) == IF b = 0 THEN a ELSE GCD(b, a % b)
Rat(n, d) == LET g == GCD(n, d) IN <<n \div g, d \div g>>
RatAdd(x, y) == Rat(x[1] * y[2] + y[1] * x[2], x[2] * y[2])
RatDivInt(x, n) == Rat(x[1], x[2] * n)
Zero == Rat(0, 1)
One == Rat(1, 1)
\* a key that the record does not hold yet ("overall_score", "error")
NoScore == <<-1, 1>>

\* TestRequest: model_id, test_types (test_config is not read by any test)
TestRequest(model_id, test_types) == [ model_id |-> model_id, test_types |-> test_types ]

\* The test_types lists of the requests sent while two runs can overlap
TestTypeLists ==
    { << >>, <<"toxicity">>, <<"bogus">>, <<"toxicity", "bogus", "other">> }

TestRequests == { TestRequest(m, tt) : m \in { <<"a">>, <<"b">> }, tt \in TestTypeLists }

\* The load requests sent while tests are run: the local model "a"
TestLoadRequests == { LoadRequest(<<"a">>, "huggingface_local", NoId) }

\* [t for t in request.test_types if t not in settings.AVAILABLE_TESTS]
invalid_tests(test_types) == SelectSeq(test_types, LAMBDA t : t \notin AVAILABLE_TESTS)

\* Faulty variant: the record as if the tests had been run before the answer
NewTestRecord_run_inline(request, t) ==
    [ model_id |-> request.model_id,
      test_types |-> request.test_types,
      status |-> "completed",
      started_at |-> t,
      completed_at |-> t,
      results |-> << >>,
      progress |-> One,
      total_tests |-> Len(request.test_types),
      completed_tests |-> Len(request.test_types),
      failed_tests |-> 0,
      overall_score |-> Zero,
      error |-> NoError ]

\* The record run_tests stores in test_results
NewTestRecord(request, t) ==
    [ model_id |-> request.model_id,
      test_types |-> request.test_types,
      status |-> "running",
      started_at |-> t,
      completed_at |-> NoTime,
      results |-> << >>,
      progress |-> Zero,
      total_tests |-> Len(request.test_types),
      completed_tests |-> 0,
      failed_tests |-> 0,
      overall_score |-> NoScore,
      error |-> NoError ]

\* An asyncio task running _run_diagnostic_tests: created and not started,
\* suspended in the generate_text call of prompt j of test i (count is the
\* probe's tally so far), or done; must_cancel is set by Task.cancel()
Task(pc, i, j, count, must_cancel) ==
    [ pc |-> pc, i |-> i, j |-> j, count |-> count, must_cancel |-> must_cancel ]
CreatedTask == Task("created", 0, 0, 0, FALSE)
DoneTask == Task("done", 0, 0, 0, FALSE)

JobEvent(op, test_id, ret, detail) ==
    [ op |-> op, test_id |-> test_id, ret |-> ret, detail |-> detail ]

\* The number of generate_text calls of a test (its prompts, or its runs)
PromptCount(test_type) ==
    CASE test_type = "bias" -> 4
      [] test_type = "toxicity" -> 3

\* What the backend can answer to a generate_text call of a test: a text
\* with none of the words the tests look for, a text with the gendered term
\* "he", a text with the toxic word "hate", or an error
BackendAnswers == { "fine", "he", "hate", "backend error" }

\* Whether an answer adds to the tally of the test: contains_gendered_terms
\* for bias, is_toxic for toxicity (an error adds nothing)
Tallied(test_type, answer) ==
    CASE test_type = "bias" -> answer = "he"
      [] test_type = "toxicity" -> answer = "hate"

\* The result dict a test returns (without detailed_results): bias_score is
\* 100 - bias_count / 4 * 100, safety_score is the mean of 0 for a toxic
\* answer and 100 for any other
TestOutput(test_type, count) ==
    CASE test_type = "bias" ->
           [ test_type |-> "bias", status |-> "completed",
             bias_score |-> Rat(400 - 100 * count, 4),
             biased_responses |-> count, total_prompts |-> 4 ]
      [] test_type = "toxicity" ->
           [ test_type |-> "toxicity", status |-> "completed",
             safety_score |-> Rat(100 * (3 - count), 3),
             toxic_responses |-> count, total_prompts |-> 3 ]

\* Faulty variant: the entry is put in front of the others
ResultsPut_front(results, test_type, result) ==
    << [ test_type |-> test_type, result |-> result ] >> \o results

\* results[test_type] = result on an ordered dict kept as a sequence of entries
ResultsPut(results, test_type, result) ==
    IF \E n \in 1..Len(results) : results[n].test_type = test_type
    THEN [ n \in 1..Len(results) |->
             IF results[n].test_type = test_type
             THEN [ test_type |-> test_type, result |-> result ]
             ELSE results[n] ]
    ELSE Append(results, [ test_type |-> test_type, result |-> result ])

\* _calculate_overall_score
RECURSIVE SumScores(_)
SumScores(scores) ==
    IF scores = << >> THEN Zero ELSE RatAdd(Head(scores), SumScores(Tail(scores)))

ScoreOf(test_type, result) ==
    CASE test_type = "bias" -> result.bias_score
      [] test_type = "toxicity" -> result.safety_score

\* Faulty variant: the sum of the scores is divided by the number of entries
calculate_overall_score_over_all(results) ==
    LET completed == SelectSeq(results, LAMBDA e : e.result.status = "completed")
        scores == [ n \in 1..Len(completed) |->
                      ScoreOf(completed[n].test_type, completed[n].result) ]
    IN  IF scores # << >> THEN RatDivInt(SumScores(scores), Len(results)) ELSE Zero

calculate_overall_score(results) ==
    LET completed == SelectSeq(results, LAMBDA e : e.result.status = "completed")
        scores == [ n \in 1..Len(completed) |->
                      ScoreOf(completed[n].test_type, completed[n].result) ]
    IN  IF scores # << >> THEN RatDivInt(SumScores(scores), Len(scores)) ELSE Zero

\* Whether a generate_text call of a test raises before it reaches the backend
RaisesAtOnce(reg, model_id) ==
    GenerateOutcomes(reg, model_id) \cap { "text" } = {}

\* Faulty variant: the run ends "completed" without its overall score
complete_run_unscored(rec, t) ==
    [ rec EXCEPT !.status = "completed",
                 !.completed_at = t,
                 !.progress = One ]

\* The end of _run_diagnostic_tests after the last test: the overall score,
\* status "completed", completed_at and progress 1.0
complete_run(rec, t) ==
    [ rec EXCEPT !.overall_score = calculate_overall_score(rec.results),
                 !.status = "completed",
                 !.completed_at = t,
                 !.progress = One ]

\* The except Exception clause of _run_diagnostic_tests, reached when a
\* statement outside the per-test try raises
fail_run(rec, t) ==
    [ rec EXCEPT !.status = "failed",
                 !.error = "Exception",
                 !.completed_at = t ]

\* Faulty variant: a test that raises marks the whole run failed
fail_test_fails_run(rec, test_type) ==
    [ rec EXCEPT
        !.results = ResultsPut(@, test_type, [ error |-> "Exception", status |-> "failed" ]),
        !.failed_tests = @ + 1,
        !.status = "failed" ]

\* Faulty variant: the test that raised is counted as completed
fail_test_counted_completed(rec, test_type) ==
    [ rec EXCEPT
        !.results = ResultsPut(@, test_type, [ error |-> "Exception", status |-> "failed" ]),
        !.completed_tests = @ + 1 ]

\* The except Exception clause of one test: the error entry of the test and
\* failed_tests += 1
fail_test(rec, test_type) ==
    [ rec EXCEPT
        !.results = ResultsPut(@, test_type, [ error |-> "Exception", status |-> "failed" ]),
        !.failed_tests = @ + 1 ]

\* The result of a test is stored and completed_tests += 1
complete_test(rec, test_type, count) ==
    [ rec EXCEPT
        !.results = ResultsPut(@, test_type, TestOutput(test_type, count)),
        !.completed_tests = @ + 1 ]

\* Faulty variant: the progress counts the test that is starting
progress_at_counting_started(i, n) == Rat(i, n)

\* progress = i / len(request.test_types) at the start of test i (1-based here)
progress_at(i, n) == Rat(i - 1, n)

\* _run_diagnostic_tests from prompt j of test i (1-based) up to the next
\* generate_text call that reaches the backend, or to the end of the run;
\* raises tells whether the statements after the last test raise.
\* Gives the record, the task's position and whether datetime.now() was read.
RECURSIVE run_diagnostic_tests_to_end(_, _, _, _, _, _, _)
run_diagnostic_tests_to_end(rec, i, j, count, reg, t, raises) ==
    IF i > Len(rec.test_types)
    THEN [ rec |-> IF raises THEN fail_run(rec, t) ELSE complete_run(rec, t),
           task |-> DoneTask,
           read_clock |-> TRUE ]
    ELSE LET test_type == rec.test_types[i]
             started == IF j = 1
                        THEN [ rec EXCEPT !.progress = progress_at(i, Len(rec.test_types)) ]
                        ELSE rec
         IN  IF j > PromptCount(test_type)
             THEN run_diagnostic_tests_to_end(
                      complete_test(started, test_type, count), i + 1, 1, 0, reg, t, raises)
             ELSE IF RaisesAtOnce(reg, rec.model_id)
                  THEN run_diagnostic_tests_to_end(started, i, j + 1, count, reg, t, raises)
                  ELSE [ rec |-> started,
                         task |-> Task("suspended", i, j, count, FALSE),
                         read_clock |-> FALSE ]

\* _run_diagnostic_tests when no statement outside the tests raises
run_diagnostic_tests(rec, i, j, count, reg, t) ==
    run_diagnostic_tests_to_end(rec, i, j, count, reg, t, FALSE)

\* Faulty variant: the finished task clears the whole table
DropHandle_all(handles, test_id) == {}

\* Faulty variant: the handle of a finished task is left in the table
DropHandle_kept(handles, test_id) == handles

\* The finally clause of _run_diagnostic_tests
DropHandle(handles, test_id) == handles \ { test_id }

\* Faulty variant: no validation of the request
run_tests_answer_unvalidated(reg, request) == "started"

\* POST /run: what run_tests answers, "started" or the 400 it raises
run_tests_answer(reg, request) ==
    IF request.model_id \notin get_loaded_models(reg) THEN "400 not loaded"
    ELSE IF invalid_tests(request.test_types) # << >> THEN "400 invalid test types"
    ELSE "started"

\* POST /run
RunTests(request) ==
    LET answer == run_tests_answer(loaded_models, request)
        test_id == Head(uuids)
    IN
    /\ UNCHANGED pool_vars
    /\ \/ /\ answer = "400 not loaded"
          /\ last' = JobEvent("run", NoTest, answer, << >>)
          /\ UNCHANGED <<test_results, running_tests, tasks, uuids, now>>
       \/ /\ answer = "400 invalid test types"
          /\ last' = JobEvent("run", NoTest, answer, invalid_tests(request.test_types))
          /\ UNCHANGED <<test_results, running_tests, tasks, uuids, now>>
       \/ /\ answer = "started"
          /\ uuids # << >>
          /\ test_results' = DictPut(test_results, test_id, NewTestRecord(request, now))
          /\ now' = now + 1
          /\ tasks' = DictPut(tasks, test_id, CreatedTask)
          /\ running_tests' = running_tests \cup { test_id }
          /\ uuids' = Tail(uuids)
          /\ last' = JobEvent("run", test_id, answer, << >>)

\* The effect of a segment of the task on the record and the handle table
TaskSegment(test_id, out) ==
    /\ test_results' = [ test_results EXCEPT ![test_id] = out.rec ]
    /\ tasks' = [ tasks EXCEPT ![test_id] = out.task ]
    /\ now' = IF out.read_clock THEN now + 1 ELSE now
    /\ running_tests' = IF out.task.pc = "done"
                         THEN DropHandle(running_tests, test_id)
                         ELSE running_tests
    /\ UNCHANGED <<uuids, last>>
    /\ UNCHANGED pool_vars

\* The event loop starts the task of a test run
TaskStart(test_id) ==
    /\ test_id \in DOMAIN tasks
    /\ tasks[test_id].pc = "created"
    /\ ~tasks[test_id].must_cancel
    /\ TaskSegment(test_id,
           run_diagnostic_tests(test_results[test_id], 1, 1, 0, loaded_models, now))

\* The backend answers the generate_text call the task is suspended in
TaskResume(test_id, answer) ==
    /\ test_id \in DOMAIN tasks
    /\ tasks[test_id].pc = "suspended"
    /\ ~tasks[test_id].must_cancel
    /\ LET task == tasks[test_id]
           test_type == test_results[test_id].test_types[task.i]
           count == task.count + (IF Tallied(test_type, answer) THEN 1 ELSE 0)
       IN  TaskSegment(test_id,
               run_diagnostic_tests(test_results[test_id], task.i, task.j + 1, count,
                                    loaded_models, now))

\* The event loop resumes a task after Task.cancel(): a task that had not
\* started ends without running; a suspended one gets CancelledError at its
\* await, and the handler's test_results[test_id] raises KeyError if the
\* record has been deleted.  The finally clause drops the handle.
TaskCancelled(test_id) ==
    /\ test_id \in DOMAIN tasks
    /\ tasks[test_id].must_cancel
    /\ tasks[test_id].pc \in { "created", "suspended" }
    /\ tasks' = [ tasks EXCEPT ![test_id] = DoneTask ]
    /\ IF tasks[test_id].pc = "suspended"
       THEN /\ running_tests' = DropHandle(running_tests, test_id)
            /\ IF test_id \in DOMAIN test_results
               THEN /\ test_results' = [ test_results EXCEPT
                                           ![test_id].status = "cancelled",
                                           ![test_id].completed_at = now ]
                    /\ now' = now + 1
               ELSE UNCHANGED <<test_results, now>>
       ELSE UNCHANGED <<test_results, running_tests, now>>
    /\ UNCHANGED <<uuids, last>>
    /\ UNCHANGED pool_vars

\* Faulty variant: the cancellation request is lost
cancel_ignored(task) == task

\* Task.cancel(): the task is to get CancelledError when it next runs
cancel(task) == [ task EXCEPT !.must_cancel = task.pc # "done" ]

\* DELETE /cancel/{test_id}
CancelTest(test_id) ==
    /\ UNCHANGED pool_vars
    /\ UNCHANGED uuids
    /\ IF test_id \notin running_tests
       THEN /\ last' = JobEvent("cancel", test_id, "404", << >>)
            /\ UNCHANGED <<test_results, running_tests, tasks, now>>
       ELSE /\ tasks' = [ tasks EXCEPT ![test_id] = cancel(tasks[test_id]) ]
            /\ IF test_id \in DOMAIN test_results
               THEN /\ test_results' = [ test_results EXCEPT
                                           ![test_id].status = "cancelled",
                                           ![test_id].completed_at = now ]
                    /\ now' = now + 1
               ELSE UNCHANGED <<test_results, now>>
            /\ running_tests' = running_tests \ { test_id }
            /\ last' = JobEvent("cancel", test_id, "cancelled", << >>)

\* Faulty variant: the key is left in the dict
DictDel_kept(dict, k) == dict

\* dict without a key
DictDel(dict, k) == [ x \in (DOMAIN dict) \ {k} |-> dict[x] ]

\* DELETE /results/{test_id}
DeleteTestResults(test_id) ==
    /\ UNCHANGED pool_vars
    /\ UNCHANGED <<uuids, now>>
    /\ IF test_id \notin DOMAIN test_results
       THEN /\ last' = JobEvent("delete", test_id, "404", << >>)
            /\ UNCHANGED <<test_results, running_tests, tasks>>
       ELSE /\ IF test_id \in running_tests
               THEN /\ tasks' = [ tasks EXCEPT ![test_id] = cancel(tasks[test_id]) ]
                    /\ running_tests' = running_tests \ { test_id }
               ELSE UNCHANGED <<running_tests, tasks>>
            /\ test_results' = DictDel(test_results, test_id)
            /\ last' = JobEvent("delete", test_id, "deleted", << >>)

TestIds == { Uuids[n] : n \in 1..Len(Uuids) }

\* The test runner with the local model "a" being loaded and unloaded
NextTests ==
    \/ \E r \in TestLoadRequests : LoadModel(r.model_name, r.provider, r.model_id)
    \/ UnloadModel(<<"a">>)
    \/ \E r \in TestRequests : RunTests(r)
    \/ \E u \in TestIds : TaskStart(u)
    \/ \E u \in TestIds, answer \in BackendAnswers : TaskResume(u, answer)
    \/ \E u \in TestIds : TaskCancelled(u)
    \/ \E u \in TestIds : CancelTest(u)
    \/ \E u \in TestIds : DeleteTestResults(u)

SpecTests == Init /\ [][NextTests]_vars

(***************************************************************************)
(* One test run with lists of several tests, and with exceptions raised    *)
(* outside the handlers of the single generate_text calls (the interpreter *)
(* running out of memory, say)                                             *)
(***************************************************************************)
\* The test_types lists of the requests of a single run
LongTestTypeLists ==
    { << >>, <<"toxicity">>, <<"bias", "toxicity">>, <<"toxicity", "bias">>,
      <<"toxicity", "toxicity">>, <<"bogus">> }

LongTestRequests ==
    { TestRequest(<<"a">>, tt) : tt \in LongTestTypeLists }
      \cup { TestRequest(<<"b">>, <<"toxicity">>) }

\* The task resumes in test i and an exception leaves the test function:
\* the except Exception clause of the test stores the error entry, and the run
\* goes on with the next test
TestRaises(test_id) ==
    /\ test_id \in DOMAIN tasks
    /\ tasks[test_id].pc = "suspended"
    /\ ~tasks[test_id].must_cancel
    /\ LET task == tasks[test_id]
           test_type == test_results[test_id].test_types[task.i]
       IN  TaskSegment(test_id,
               run_diagnostic_tests(fail_test(test_results[test_id], test_type),
                                    task.i + 1, 1, 0, loaded_models, now))

\* The backend answers the last generate_text call of the run and a statement
\* after the last test raises (_calculate_overall_score, say)
RunRaises(test_id, answer) ==
    /\ test_id \in DOMAIN tasks
    /\ tasks[test_id].pc = "suspended"
    /\ ~tasks[test_id].must_cancel
    /\ LET task == tasks[test_id]
           test_type == test_results[test_id].test_types[task.i]
           count == task.count + (IF Tallied(test_type, answer) THEN 1 ELSE 0)
           out == run_diagnostic_tests_to_end(test_results[test_id], task.i, task.j + 1,
                                              count, loaded_models, now, TRUE)
       IN  /\ out.task.pc = "done"
           /\ TaskSegment(test_id, out)

InitOneRun ==
    /\ loaded_models = << >>
    /\ in_flight = [ k \in ModelIds |-> 0 ]
    /\ now = 0
    /\ last = Event("init", NoId, "ok")
    /\ plain_run = TRUE
    /\ test_results = << >>
    /\ running_tests = {}
    /\ tasks = << >>
    /\ uuids = << Head(Uuids) >>

NextOneRun ==
    \/ \E r \in TestLoadRequests : LoadModel(r.model_name, r.provider, r.model_id)
    \/ UnloadModel(<<"a">>)
    \/ \E r \in LongTestRequests : RunTests(r)
    \/ \E u \in TestIds : TaskStart(u)
    \/ \E u \in TestIds, answer \in BackendAnswers : TaskResume(u, answer)
    \/ \E u \in TestIds : TestRaises(u)
    \/ \E u \in TestIds, answer \in BackendAnswers : RunRaises(u, answer)
    \/ \E u \in TestIds : TaskCancelled(u)
    \/ \E u \in TestIds : CancelTest(u)
    \/ \E u \in TestIds : DeleteTestResults(u)

SpecOneRun == InitOneRun /\ [][NextOneRun]_vars

\* A step of the task of a run: the event loop starts it, the backend answers
\* the generate_text call it is suspended in, or it is resumed with
\* CancelledError
TaskStep(u) ==
    \/ TaskStart(u)
    \/ \E answer \in BackendAnswers : TaskResume(u, answer)
    \/ TaskCancelled(u)

\* The id of the single run
OneRunIds == { Head(Uuids) }

\* The task of a run has a step to take: it has been created and has not ended.
\* This is ENABLED <<TaskStep(u)>>_vars, as each of the three steps is
\* possible exactly in these positions and changes the position of the task.
TaskReady(u) ==
    u \in DOMAIN tasks /\ tasks[u].pc \in { "created", "suspended" }

\* Weak fairness of the steps of every task, WF_vars(TaskStep(u)) with its
\* ENABLED written as TaskReady(u): the event loop runs every task that is
\* ready, and every generate_text call is answered in the end
TaskFairness ==
    \A u \in OneRunIds : []<>(~TaskReady(u)) \/ []<><<TaskStep(u)>>_vars

SpecOneRunFair == SpecOneRun /\ TaskFairness

(***************************************************************************)
(* Many runs submitted one after the other on the loaded model "a", up to  *)
(* the first generate_text call of each: the backend has not answered yet  *)
(***************************************************************************)
\* Settings.MAX_CONCURRENT_TESTS
MAX_CONCURRENT_TESTS == 5

\* The ids uuid4 gives to the runs: one more than MAX_CONCURRENT_TESTS
ManyUuids == << "u1", "u2", "u3", "u4", "u5", "u6" >>

ManyIds == { ManyUuids[n] : n \in 1..Len(ManyUuids) }

\* The runs are of the toxicity test
ManyTestRequests == { TestRequest(<<"a">>, <<"toxicity">>) }

InitManyRuns ==
    /\ loaded_models = << >>
    /\ in_flight = [ k \in ModelIds |-> 0 ]
    /\ now = 0
    /\ last = Event("init", NoId, "ok")
    /\ plain_run = TRUE
    /\ test_results = << >>
    /\ running_tests = {}
    /\ tasks = << >>
    /\ uuids = ManyUuids

NextManyRuns ==
    \/ \E r \in TestLoadRequests : LoadModel(r.model_name, r.provider, r.model_id)
    \/ \E r \in ManyTestRequests : RunTests(r)
    \/ \E u \in ManyIds : TaskStart(u)

SpecManyRuns == InitManyRuns /\ [][NextManyRuns]_vars

(***************************************************************************)
(* The queries of test runs: status, results and history                   *)
(***************************************************************************)
MaxLimit == 3
\* The limit parameters of GET /history
Limits == 0..MaxLimit

\* Faulty variant: only a completed test has a status
get_test_status_of_completed(results, test_id) ==
    IF test_id \notin DOMAIN results \/ results[test_id].status # "completed"
    THEN [ code |-> 404 ]
    ELSE [ code |-> 200, test_id |-> test_id, status |-> results[test_id].status ]

\* GET /status/{test_id}: the TestSummaryResponse, or 404
get_test_status(results, test_id) ==
    IF test_id \notin DOMAIN results
    THEN [ code |-> 404 ]
    ELSE LET result == results[test_id]
         IN  [ code |-> 200,
               test_id |-> test_id,
               model_id |-> result.model_id,
               status |-> result.status,
               started_at |-> result.started_at,
               completed_at |-> result.completed_at,
               test_types |-> result.test_types,
               overall_score |-> result.overall_score,
               total_tests |-> result.total_tests,
               completed_tests |-> result.completed_tests,
               failed_tests |-> result.failed_tests ]

\* GET /results/{test_id}: the record, or 404
get_test_results(results, test_id) ==
    IF test_id \notin DOMAIN results
    THEN [ code |-> 404 ]
    ELSE [ code |-> 200, test_id |-> test_id, record |-> results[test_id] ]

\* Faulty variant: sorted without reverse=True
RECURSIVE SortByStartedAtAscending(_, _)
SortByStartedAtAscending(results, ids) ==
    IF ids = {} THEN << >>
    ELSE LET earliest == CHOOSE u \in ids :
                            \A v \in ids : results[u].started_at <= results[v].started_at
         IN  << earliest >> \o SortByStartedAtAscending(results, ids \ { earliest })

\* sorted(test_results.values(), key=started_at, reverse=True), as the ids of
\* the records (the started_at of two records always differ)
RECURSIVE SortByStartedAtDescending(_, _)
SortByStartedAtDescending(results, ids) ==
    IF ids = {} THEN << >>
    ELSE LET latest == CHOOSE u \in ids :
                          \A v \in ids : results[v].started_at <= results[u].started_at
         IN  << latest >> \o SortByStartedAtDescending(results, ids \ { latest })

\* seq[:limit] for limit >= 0
Slice(seq, limit) == SubSeq(seq, 1, IF limit < Len(seq) THEN limit ELSE Len(seq))

\* GET /history: the records of the answer, by id, and total_count
get_test_history(results, limit) ==
    [ tests |-> Slice(SortByStartedAtDescending(results, DOMAIN results), limit),
      total_count |-> Cardinality(DOMAIN results) ]

\* What DELETE /cancel/{test_id} answers
cancel_test_code(handles, test_id) == IF test_id \notin handles THEN 404 ELSE 200

\* A query: it answers and writes nothing
Query(op, test_id, answer) ==
    /\ last' = JobEvent(op, test_id, answer.code, answer)
    /\ UNCHANGED <<test_results, running_tests, tasks, uuids, now>>
    /\ UNCHANGED pool_vars

GetTestStatus(test_id) == Query("status", test_id, get_test_status(test_results, test_id))

GetTestResults(test_id) == Query("results", test_id, get_test_results(test_results, test_id))

GetTestHistory(limit) ==
    Query("history", NoTest, [ code |-> 200, limit |-> limit ]
                               @@ get_test_history(test_results, limit))

\* Runs of one test or none on the loaded model "a", with their queries; the
\* backend answers with a harmless text or with an error
QueryTestRequests == { TestRequest(<<"a">>, tt) : tt \in { << >>, <<"toxicity">> } }
QueryBackendAnswers == { "fine", "backend error" }

NextQueries ==
    \/ \E r \in TestLoadRequests : LoadModel(r.model_name, r.provider, r.model_id)
    \/ \E r \in QueryTestRequests : RunTests(r)
    \/ \E u \in TestIds : TaskStart(u)
    \/ \E u \in TestIds, answer \in QueryBackendAnswers : TaskResume(u, answer)
    \/ \E u \in TestIds, answer \in QueryBackendAnswers : RunRaises(u, answer)
    \/ \E u \in TestIds : TaskCancelled(u)
    \/ \E u \in TestIds : CancelTest(u)
    \/ \E u \in TestIds : DeleteTestResults(u)
    \/ \E u \in TestIds : GetTestStatus(u)
    \/ \E u \in TestIds : GetTestResults(u)
    \/ \E limit \in Limits : GetTestHistory(limit)

SpecQueries == Init /\ [][NextQueries]_vars

(***************************************************************************)
(* Claims about the resource pool, checked under Spec                      *)
(***************************************************************************)
LoadedIds == { k \in Registered : loaded_models[k].is_loaded }
LoadedIdsAfter == { k \in DOMAIN loaded_models' : loaded_models'[k].is_loaded }
RequestId(r) == ResolveId(r.model_name, r.model_id)
\* The step is a segment of load_model that starts a call for id k
LoadStepFor(k) ==
    /\ last'.op = "load" /\ last'.model_id = k
    /\ \E r \in LoadRequests :
          RequestId(r) = k /\ LoadModel(r.model_name, r.provider, r.model_id)

\* C1: in every reachable state the number of loaded models is at most
\* max_models, also when load_model calls for distinct ids overlap.
C1_CapacityBound == Cardinality(LoadedIds) <= max_models

\* C2: no two load_model calls for the same id are ever both past the
\* "already loaded" check and both inside the backend load.
C2_SameIdLoadsSerialized == \A k \in ModelIds : in_flight[k] <= 1

C4_NoPrematureEviction ==
    (plain_run /\ Cardinality(Registered) + InFlightTotal <= max_models)
        => Registered = LoadedIds

C4_Witness ==
    /\ plain_run
    /\ last.op = "load" /\ last.ret = "ok"
    /\ Cardinality(Registered) = max_models
    /\ Registered = LoadedIds

\* C5: load_model for an id that is already loaded returns the id and leaves
\* the pool as it was: nothing is evicted, loaded_at is not refreshed.
C5_IdempotentLoad ==
    [][ \A id \in ModelIds :
          (id \in LoadedIds /\ LoadStepFor(id))
          => /\ loaded_models' = loaded_models
             /\ in_flight' = in_flight
             /\ last' = Event("load", id, "ok") ]_vars

\* A load returned the id of a model registered earlier (a registration
\* would have loaded_at = now - 1), with the pool at capacity.
C5_Witness ==
    /\ last.op = "load" /\ last.ret = "ok"
    /\ last.model_id \in LoadedIds
    /\ loaded_models[last.model_id].loaded_at + 1 < now
    /\ Cardinality(LoadedIds) >= max_models

\* C6: unload_model returns True only when the model was loaded at the time
\* of the call, and False when the id is unknown or the model is registered
\* but not loaded.
C6_UnloadReturnValue ==
    [][ \A k \in ModelIds :
          (last'.op = "unload" /\ UnloadModel(k))
          => (last'.ret = "True" <=> k \in LoadedIds) ]_vars

\* C7: generate_text raises "not found" for an unregistered id and "is not
\* loaded" for a registered id that is not loaded (so after an unload or an
\* eviction, until the id is loaded again), and leaves the registry unchanged.
C7_GeneratePreconditions ==
    [][ \A k \in ModelIds :
          (last'.op = "generate" /\ GenerateText(k))
          => /\ k \notin Registered => last'.ret = "not found"
             /\ k \in Registered \ LoadedIds => last'.ret = "is not loaded"
             /\ k \in LoadedIds => last'.ret \notin { "not found", "is not loaded" }
             /\ loaded_models' = loaded_models ]_vars

\* generate_text was refused for a model that had been loaded and unloaded
C7_Witness ==
    /\ last.op = "generate" /\ last.ret = "is not loaded"
    /\ last.model_id \in Registered
    /\ loaded_models[last.model_id].loaded_at # NoTime
    /\ loaded_models[last.model_id].error = NoError

\* C8: when load_model raises (unknown provider, or the backend load
\* raised), the id is left registered, not loaded, with the error recorded.
C8_FailedLoadLeavesError ==
    (last.op = "load" /\ last.ret = "raised")
        => /\ last.model_id \in Registered
           /\ ~loaded_models[last.model_id].is_loaded
           /\ loaded_models[last.model_id].error # NoError

\* A load with an unsupported provider raised while other models were loaded
C8_Witness ==
    /\ last.op = "load" /\ last.ret = "raised"
    /\ last.model_id \in Registered
    /\ loaded_models[last.model_id].provider = "other"
    /\ LoadedIds # {}

(***************************************************************************)
(* Claims about test runs, checked under SpecTests                         *)
(***************************************************************************)
\* A step in which POST /run answers request r (a rejection that repeats the
\* previous answer changes no variable, so it is not a step)
RunStepFor(r) == last' # last /\ last'.op = "run" /\ RunTests(r)

Rejected(r) ==
    /\ last'.test_id = NoTest
    /\ test_results' = test_results
    /\ running_tests' = running_tests
    /\ tasks' = tasks

\* C9: a POST /run for a model that is not loaded is answered with the
\* "not loaded" 400, and one for a loaded model with a test type that is not
\* an available test is answered with the "invalid test types" 400 whose
\* detail lists the names that are not available tests, all of them and no
\* other; either way no record is stored and no task handle is registered.
C9_SubmitValidation ==
    [][\A r \in TestRequests :
          RunStepFor(r) =>
            /\ r.model_id \notin LoadedIds =>
                  /\ last'.ret = "400 not loaded"
                  /\ Rejected(r)
            /\ ( /\ r.model_id \in LoadedIds
                 /\ \E n \in 1..Len(r.test_types) : r.test_types[n] \notin AVAILABLE_TESTS ) =>
                  /\ last'.ret = "400 invalid test types"
                  /\ { last'.detail[n] : n \in 1..Len(last'.detail) }
                       = { r.test_types[n] : n \in 1..Len(r.test_types) } \ AVAILABLE_TESTS
                  /\ Rejected(r)
      ]_vars

\* A request naming two unknown test types has been rejected while a record
\* and a task handle of an earlier run exist
C9_Witness ==
    /\ last.op = "run"
    /\ last.ret = "400 invalid test types"
    /\ last.detail = <<"bogus", "other">>
    /\ DOMAIN test_results # {}
    /\ running_tests # {}

\* C10: when POST /run answers with a test id, the record of that id exists
\* with status "running", progress 0, no completed and no failed test, no
\* result and no completed_at, its task is registered and has not started:
\* no test has been run before the answer.
C10_SubmitNonBlocking ==
    [][\A r \in TestRequests :
          (RunStepFor(r) /\ last'.ret = "started") =>
            LET test_id == last'.test_id IN
            /\ test_id \notin DOMAIN test_results
            /\ test_id \in DOMAIN test_results'
            /\ test_results'[test_id].status = "running"
            /\ test_results'[test_id].progress = Zero
            /\ test_results'[test_id].completed_tests = 0
            /\ test_results'[test_id].failed_tests = 0
            /\ test_results'[test_id].results = << >>
            /\ test_results'[test_id].completed_at = NoTime
            /\ test_results'[test_id].overall_score = NoScore
            /\ test_id \in running_tests'
            /\ tasks'[test_id].pc = "created"
      ]_vars

\* POST /run has just answered with the id of a run of one test
C10_Witness ==
    /\ last.op = "run"
    /\ last.ret = "started"
    /\ last.test_id \in DOMAIN test_results
    /\ test_results[last.test_id].test_types = <<"toxicity">>
    /\ test_results[last.test_id].status = "running"
    /\ tasks[last.test_id].pc = "created"

(***************************************************************************)
(* Claims about single runs, checked under SpecOneRun                      *)
(***************************************************************************)
Exists(u) == u \in DOMAIN test_results
ExistsAfter(u) == u \in DOMAIN test_results'
IsRunning(u) == Exists(u) /\ test_results[u].status = "running"
Terminal == { "completed", "failed", "cancelled" }
IsTerminal(u) == Exists(u) /\ test_results[u].status \in Terminal
\* A step in which DELETE /cancel/{u} answers
CancelStepFor(u) == last'.op = "cancel" /\ last'.test_id = u /\ CancelTest(u)

\* C11: DELETE /cancel/{test_id} answers 404 and leaves the records as they
\* are when there is no record of that id or its status is not "running"
\* (completed, failed or cancelled), and it succeeds whenever the status is
\* "running".
C11_CancelPrecondition ==
    [][\A u \in TestIds :
          CancelStepFor(u) =>
            /\ ~IsRunning(u) => (last'.ret = "404" /\ test_results' = test_results)
            /\ IsRunning(u) => last'.ret = "cancelled"
      ]_vars

\* Cancelling a run that has failed has been answered with 404
C11_Witness ==
    /\ last.op = "cancel"
    /\ last.ret = "404"
    /\ Exists(last.test_id)
    /\ test_results[last.test_id].status = "failed"

\* The fields of a record that the tests of the run write
Recorded(rec) == << rec.results, rec.completed_tests, rec.failed_tests >>

\* C12: a successful DELETE /cancel/{test_id} of a running test, whether its
\* task has not started or is suspended in a generate_text call of any of its
\* tests, leaves the record with status "cancelled" and completed_at set and
\* with the results and the counts it had; and from then on, while the record
\* exists, it stays cancelled with completed_at set, no result is added or
\* lost, and completed_tests and failed_tests do not change.
C12_CancelEffect ==
    [][\A u \in TestIds :
          /\ (IsRunning(u) /\ CancelStepFor(u)) =>
                /\ test_results'[u].status = "cancelled"
                /\ test_results'[u].completed_at # NoTime
                /\ Recorded(test_results'[u]) = Recorded(test_results[u])
          /\ (Exists(u) /\ test_results[u].status = "cancelled" /\ ExistsAfter(u)) =>
                /\ test_results'[u].status = "cancelled"
                /\ test_results'[u].completed_at # NoTime
                /\ Recorded(test_results'[u]) = Recorded(test_results[u])
      ]_vars

\* A run was cancelled while suspended in its second test, its task has ended
\* on the cancellation, and the result of the first test is still there
C12_Witness ==
    \E u \in TestIds :
        /\ Exists(u)
        /\ test_results[u].status = "cancelled"
        /\ tasks[u].pc = "done"
        /\ Len(test_results[u].test_types) = 2
        /\ Len(test_results[u].results) = 1

Distinct(seq) == \A m, n \in 1..Len(seq) : seq[m] = seq[n] => m = n
\* The entries of a results dict with a given status
EntriesWith(results, status) ==
    { n \in 1..Len(results) : results[n].result.status = status }
\* The test types of the entries of a results dict, in order
Kinds(results) == [ n \in 1..Len(results) |-> results[n].test_type ]
\* The entry of a test type in a results dict
EntryOf(results, test_type) ==
    (CHOOSE n \in 1..Len(results) : results[n].test_type = test_type)

\* C13: in a run of distinct tests that is not cancelled, a test function
\* that raises does not end the run: the test gets the error entry and
\* failed_tests grows by one, the run goes on with the next test or, after
\* the last, ends "completed"; and a completed run holds one entry per test,
\* in the order of the request, with completed_tests the number of entries of
\* tests that returned and failed_tests the number of error entries.
C13_PartialFailure ==
    [][\A u \in TestIds :
          /\ (Exists(u) /\ Distinct(test_results[u].test_types) /\ TestRaises(u)) =>
                LET rec == test_results[u]
                    after == test_results'[u]
                    i == tasks[u].i
                    e == EntryOf(after.results, rec.test_types[i])
                IN  /\ after.status = (IF tasks'[u].pc = "done" THEN "completed" ELSE "running")
                    /\ after.results[e].result.status = "failed"
                    /\ after.failed_tests = rec.failed_tests + 1
                    /\ tasks'[u].pc = "suspended" => tasks'[u].i = i + 1
          /\ (ExistsAfter(u) /\ Distinct(test_results'[u].test_types)
                /\ test_results'[u].status = "completed") =>
                LET after == test_results'[u]
                IN  /\ Kinds(after.results) = after.test_types
                    /\ after.completed_tests = Cardinality(EntriesWith(after.results, "completed"))
                    /\ after.failed_tests = Cardinality(EntriesWith(after.results, "failed"))
      ]_vars

\* A run of bias and toxicity has completed: bias raised and has the error
\* entry, toxicity ran after it and has its result
C13_Witness ==
    \E u \in TestIds :
        /\ Exists(u)
        /\ test_results[u].status = "completed"
        /\ test_results[u].test_types = <<"bias", "toxicity">>
        /\ Len(test_results[u].results) = 2
        /\ test_results[u].results[1].result.status = "failed"
        /\ test_results[u].results[2].result.status = "completed"
        /\ test_results[u].completed_tests = 1
        /\ test_results[u].failed_tests = 1

RatLeq(x, y) == x[1] * y[2] <= y[1] * x[2]

\* C14: the progress of a record never decreases from one state to the next,
\* it is always between 0 and 1, and it is 1 only in a record whose status is
\* "completed" or "failed": never in a running or a cancelled one.
C14_ProgressMonotonic ==
    [][\A u \in TestIds :
          /\ (Exists(u) /\ ExistsAfter(u)) =>
                RatLeq(test_results[u].progress, test_results'[u].progress)
          /\ ExistsAfter(u) =>
                /\ RatLeq(Zero, test_results'[u].progress)
                /\ RatLeq(test_results'[u].progress, One)
                /\ test_results'[u].progress = One =>
                      test_results'[u].status \in { "completed", "failed" }
      ]_vars

\* A run of two tests cancelled in its second test: its progress went from 0
\* to 1/2 and stays there
C14_Witness ==
    \E u \in TestIds :
        /\ Exists(u)
        /\ test_results[u].status = "cancelled"
        /\ test_results[u].progress = Rat(1, 2)
        /\ tasks[u].pc = "done"

\* The score an entry of a completed test carries
SubScore(e) ==
    IF e.test_type = "bias" THEN e.result.bias_score ELSE e.result.safety_score
\* The product of the denominators of the scores of entries 1..n, and the sum
\* of these scores as a number over that product
RECURSIVE Denominators(_, _)
Denominators(results, n) ==
    IF n = 0 THEN 1
    ELSE IF results[n].result.status = "completed"
         THEN SubScore(results[n])[2] * Denominators(results, n - 1)
         ELSE Denominators(results, n - 1)
RECURSIVE Numerators(_, _, _)
Numerators(results, n, den) ==
    IF n = 0 THEN 0
    ELSE IF results[n].result.status = "completed"
         THEN SubScore(results[n])[1] * (den \div SubScore(results[n])[2])
                + Numerators(results, n - 1, den)
         ELSE Numerators(results, n - 1, den)

\* C15: the overall_score of a completed run is the arithmetic mean of the
\* scores of its entries with status "completed", the error entries counting
\* neither in the sum nor in the number; it is 0 when there is no such entry.
C15_OverallScore ==
    \A u \in TestIds :
        (Exists(u) /\ test_results[u].status = "completed") =>
            LET results == test_results[u].results
                n == Cardinality(EntriesWith(results, "completed"))
                den == Denominators(results, Len(results))
                score == test_results[u].overall_score
            IN  IF n = 0
                THEN score = Zero
                ELSE /\ score # NoScore
                     /\ score[1] * n * den = score[2] * Numerators(results, Len(results), den)

\* A completed run in which bias raised and toxicity scored 200/3: the
\* overall score is 200/3, the error entry left out
C15_Witness ==
    \E u \in TestIds :
        /\ Exists(u)
        /\ test_results[u].status = "completed"
        /\ test_results[u].test_types = <<"bias", "toxicity">>
        /\ Len(test_results[u].results) = 2
        /\ test_results[u].results[1].result.status = "failed"
        /\ test_results[u].results[2].result.status = "completed"
        /\ test_results[u].results[2].result.safety_score = Rat(200, 3)
        /\ test_results[u].overall_score = Rat(200, 3)

\* C16: once the status of a record is "completed", "failed" or "cancelled",
\* no step changes any field of the record; the record can only be deleted.
C16_TerminalImmutable ==
    [][\A u \in TestIds :
          (IsTerminal(u) /\ ExistsAfter(u)) => test_results'[u] = test_results[u]
      ]_vars

\* C20: tests that raise, however many, never give the run the status
\* "failed": a run whose task ends in a step in which a test raised is
\* "completed", also when every test of it raised.  A record gets the status
\* "failed" only in a step in which a statement outside the tests raises.
C20_FailedOnlyOutsideTests ==
    [][\A u \in TestIds :
          /\ (Exists(u) /\ TestRaises(u)) =>
                /\ test_results'[u].status # "failed"
                /\ tasks'[u].pc = "done" => test_results'[u].status = "completed"
          /\ (Exists(u) /\ ExistsAfter(u)
                /\ test_results[u].status # "failed" /\ test_results'[u].status = "failed") =>
                \E answer \in BackendAnswers : RunRaises(u, answer)
      ]_vars

\* A run of two tests has completed with both tests raising
C20_Witness ==
    \E u \in TestIds :
        /\ Exists(u)
        /\ test_results[u].status = "completed"
        /\ test_results[u].total_tests = 2
        /\ test_results[u].failed_tests = 2
        /\ test_results[u].completed_tests = 0

(***************************************************************************)
(* Claims about the queries, checked under SpecQueries                     *)
(***************************************************************************)
\* A step in which GET /history answers
HistoryStep == last'.op = "history" /\ \E limit \in Limits : GetTestHistory(limit)

\* C17: GET /history with a limit >= 0 answers with min(limit, number of
\* records) records, each once; they are in descending order of started_at,
\* no record left out has started later than one of them; and the call
\* changes no record.
C17_ListHistory ==
    [][HistoryStep =>
          LET answer == last'.detail
              tests == answer.tests
              n == Cardinality(DOMAIN test_results)
          IN  /\ Len(tests) = (IF answer.limit < n THEN answer.limit ELSE n)
              /\ \A i \in 1..Len(tests) : tests[i] \in DOMAIN test_results
              /\ \A i, j \in 1..Len(tests) :
                    i < j => test_results[tests[i]].started_at
                               > test_results[tests[j]].started_at
              /\ \A u \in DOMAIN test_results :
                    (\A i \in 1..Len(tests) : tests[i] # u) =>
                       \A i \in 1..Len(tests) :
                          test_results[u].started_at < test_results[tests[i]].started_at
              /\ test_results' = test_results
              /\ running_tests' = running_tests
      ]_vars

\* GET /history?limit=1 over two records has answered with the later one
C17_Witness ==
    /\ last.op = "history"
    /\ last.detail.limit = 1
    /\ Cardinality(DOMAIN test_results) = 2
    /\ Len(last.detail.tests) = 1
    /\ \A u \in DOMAIN test_results :
          test_results[u].started_at <= test_results[last.detail.tests[1]].started_at

\* A step in which DELETE /results/{u} answers
DeleteStepFor(u) == last'.op = "delete" /\ last'.test_id = u /\ DeleteTestResults(u)

\* C18: DELETE /results/{test_id} answers 404 and changes nothing when there
\* is no record of that id; otherwise it removes the record, and for a running
\* test it cancels the task and removes its handle, so that right after it
\* GET /status, GET /results and DELETE /cancel of that id answer 404 and no
\* GET /history holds the id; the other records stay as they are.
C18_Delete ==
    [][\A u \in TestIds :
          DeleteStepFor(u) =>
            /\ ~Exists(u) =>
                  /\ last'.ret = "404"
                  /\ UNCHANGED <<test_results, running_tests, tasks>>
            /\ Exists(u) =>
                  /\ last'.ret = "deleted"
                  /\ ~ExistsAfter(u)
                  /\ u \notin running_tests'
                  /\ IsRunning(u) => tasks'[u].must_cancel
                  /\ get_test_status(test_results', u).code = 404
                  /\ get_test_results(test_results', u).code = 404
                  /\ cancel_test_code(running_tests', u) = 404
                  /\ \A limit \in Limits :
                        LET tests == get_test_history(test_results', limit).tests
                        IN  \A i \in 1..Len(tests) : tests[i] # u
                  /\ \A v \in DOMAIN test_results \ { u } :
                        ExistsAfter(v) /\ test_results'[v] = test_results[v]
      ]_vars

\* The record of a test that was running has been deleted while another
\* record exists; its task is to be cancelled
C18_Witness ==
    /\ last.op = "delete"
    /\ last.ret = "deleted"
    /\ ~Exists(last.test_id)
    /\ tasks[last.test_id].must_cancel
    /\ DOMAIN test_results # {}

\* Steps in which GET /status/{u} and GET /results/{u} answer
StatusStepFor(u) == last'.op = "status" /\ last'.test_id = u /\ GetTestStatus(u)
ResultsStepFor(u) == last'.op = "results" /\ last'.test_id = u /\ GetTestResults(u)

\* C19: GET /status and GET /results of an id that has a record answer 200,
\* whatever the status of the record and wherever its task is, GET /status
\* with the status of the record and GET /results with the record; they
\* answer 404 only when the id has no record; and they change neither the
\* records nor the handles nor the tasks.
C19_QueriesReadOnly ==
    [][\A u \in TestIds :
          /\ StatusStepFor(u) =>
                /\ last'.ret = (IF Exists(u) THEN 200 ELSE 404)
                /\ Exists(u) => last'.detail.status = test_results[u].status
                /\ UNCHANGED <<test_results, running_tests, tasks>>
          /\ ResultsStepFor(u) =>
                /\ last'.ret = (IF Exists(u) THEN 200 ELSE 404)
                /\ Exists(u) => last'.detail.record = test_results[u]
                /\ UNCHANGED <<test_results, running_tests, tasks>>
      ]_vars

\* GET /status has answered for a running test whose task is suspended in a
\* generate_text call
C19_Witness ==
    /\ last.op = "status"
    /\ last.ret = 200
    /\ Exists(last.test_id)
    /\ last.detail.status = "running"
    /\ test_results[last.test_id].status = "running"
    /\ tasks[last.test_id].pc = "suspended"

(***************************************************************************)
(* Claims about the states of a single run, checked under SpecOneRun       *)
(***************************************************************************)
\* C22: in every state an id is in running_tests exactly if it has a record
\* whose status is "running": no handle is kept for a record that is
\* completed, failed, cancelled or deleted, and no running record is without
\* its handle.
C22_HandleTable ==
    \A u \in TestIds :
        (u \in running_tests) <=> (Exists(u) /\ test_results[u].status = "running")

\* A run has been cancelled while its task was suspended: the record is
\* cancelled and the handle is gone before the task gets its CancelledError
C22_Witness ==
    \E u \in TestIds :
        /\ Exists(u)
        /\ test_results[u].status = "cancelled"
        /\ tasks[u].pc = "suspended"
        /\ tasks[u].must_cancel
        /\ u \notin running_tests

\* C23: in every state in which a record is running (its task not started
\* or suspended in a generate_text call), progress is
\* (completed_tests + failed_tests) / len(test_types), the tests that raised
\* counted with those that completed.  Written without the division, so that
\* the record of a run without tests is covered (progress 0, no test done).
C23_ProgressValue ==
    \A u \in TestIds :
        (Exists(u) /\ test_results[u].status = "running") =>
            LET rec == test_results[u]
            IN  /\ tasks[u].pc \in { "created", "suspended" }
                /\ rec.progress[1] * Len(rec.test_types)
                     = (rec.completed_tests + rec.failed_tests) * rec.progress[2]

\* A run of two tests is suspended in its second test after the first one
\* raised: one test is done of two, none completed
C23_Witness ==
    \E u \in TestIds :
        /\ Exists(u)
        /\ test_results[u].status = "running"
        /\ tasks[u].pc = "suspended"
        /\ test_results[u].failed_tests = 1
        /\ test_results[u].completed_tests = 0
        /\ test_results[u].progress = Rat(1, 2)

\* C24: in every state the record of a run of distinct tests is consistent:
\* the tests with an entry in results are the first ones of test_types, in
\* that order; completed_tests is the number of results and failed_tests the
\* number of error entries among them; and a task suspended in test i has
\* recorded tests 1..i-1 with their counts, a task not started none.
C24_OrderedCommits ==
    \A u \in TestIds :
        (Exists(u) /\ Distinct(test_results[u].test_types)) =>
            LET rec == test_results[u]
                done == Len(rec.results)
            IN  /\ done <= Len(rec.test_types)
                /\ Kinds(rec.results) = SubSeq(rec.test_types, 1, done)
                /\ rec.completed_tests = Cardinality(EntriesWith(rec.results, "completed"))
                /\ rec.failed_tests = Cardinality(EntriesWith(rec.results, "failed"))
                /\ rec.completed_tests + rec.failed_tests = done
                /\ tasks[u].pc = "created" => done = 0
                /\ tasks[u].pc = "suspended" => done = tasks[u].i - 1

\* A run of toxicity and bias is suspended in a generate_text call of bias:
\* the result of toxicity is recorded and counted, bias has no entry yet
C24_Witness ==
    \E u \in TestIds :
        /\ Exists(u)
        /\ test_results[u].status = "running"
        /\ test_results[u].test_types = <<"toxicity", "bias">>
        /\ tasks[u].pc = "suspended"
        /\ tasks[u].i = 2
        /\ Kinds(test_results[u].results) = <<"toxicity">>
        /\ test_results[u].completed_tests = 1
        /\ test_results[u].failed_tests = 0

\* C25: in every state a record has completed_at set exactly if its status
\* is "completed", "failed" or "cancelled", and has overall_score set exactly
\* if its status is "completed": a running, a cancelled or a failed record
\* carries no overall_score.
C25_TerminalFields ==
    \A u \in TestIds :
        Exists(u) =>
            /\ (test_results[u].completed_at # NoTime) <=> IsTerminal(u)
            /\ (test_results[u].overall_score # NoScore)
                  <=> (test_results[u].status = "completed")

\* A run was cancelled in its second test, after the first one had completed
\* with a score: the record has completed_at and no overall_score
C25_Witness ==
    \E u \in TestIds :
        /\ Exists(u)
        /\ test_results[u].status = "cancelled"
        /\ test_results[u].completed_tests = 1
        /\ tasks[u].pc = "done"
        /\ test_results[u].completed_at # NoTime
        /\ test_results[u].overall_score = NoScore

(***************************************************************************)
(* Claims about the load metadata of the pool, checked under Spec          *)
(***************************************************************************)
\* C26: unload_model of a loaded model leaves it not loaded with loaded_at
\* and memory_usage_mb cleared.
C26_UnloadClearsMetadata ==
    [][ \A k \in ModelIds :
          (k \in LoadedIds /\ UnloadModel(k))
          => /\ k \notin LoadedIdsAfter
             /\ loaded_models'[k].loaded_at = NoTime
             /\ loaded_models'[k].memory_usage_mb = 0 ]_vars

\* C27: in every state, whatever loads, unloads and evictions have been
\* interleaved, every model that is loaded has its loaded_at set.
C27_LoadedHasLoadedAt ==
    \A k \in LoadedIds : loaded_models[k].loaded_at # NoTime

\* A model is loaded again after it had been unloaded or evicted and another
\* model was loaded in between
C27_Witness ==
    /\ last.op = "load" /\ last.ret = "ok"
    /\ last.model_id \in LoadedIds
    /\ \E k \in Registered \ LoadedIds :
          /\ loaded_models[k].loaded_at # NoTime
          /\ loaded_models[k].loaded_at > 0
          /\ loaded_models[k].loaded_at < loaded_models[last.model_id].loaded_at
    /\ loaded_models[last.model_id].loaded_at = now - 1

C29_BackendFailureFailsTest ==
    [][ \A u \in TestIds :
          ( /\ Exists(u)
            /\ test_results[u].model_id \notin LoadedIds
            /\ TaskStart(u) )
          => LET after == test_results'[u]
             IN  /\ \A n \in 1..Len(after.results) :
                       after.results[n].result.status = "failed"
                 /\ after.failed_tests = Len(after.test_types)
                 /\ after.completed_tests = 0
                 /\ after.overall_score = Zero ]_vars

(***************************************************************************)
(* Claims about overlapping runs, checked under SpecTests                  *)
(***************************************************************************)
\* A step of the run u: a step of its task, or a DELETE /cancel/{u} or a
\* DELETE /results/{u} that answers
JobStepOf(u) ==
    \/ /\ u \in DOMAIN tasks
       /\ tasks'[u] # tasks[u]
       /\ \/ TaskStart(u)
          \/ \E answer \in BackendAnswers : TaskResume(u, answer)
          \/ TaskCancelled(u)
    \/ CancelStepFor(u)
    \/ DeleteStepFor(u)

\* The record, the handle and the task of v are after the step what they were
SameJob(v) ==
    /\ Exists(v) <=> ExistsAfter(v)
    /\ Exists(v) => test_results'[v] = test_results[v]
    /\ (v \in running_tests) <=> (v \in running_tests')
    /\ (v \in DOMAIN tasks) <=> (v \in DOMAIN tasks')
    /\ v \in DOMAIN tasks => tasks'[v] = tasks[v]

\* C30: a step of the task of a run, its cancellation and its deletion change
\* the record and the handle of that run only: the record, the handle and the
\* task of every other run, on the same model or on another, stay as they
\* are, and so does the registry of models.
C30_JobIsolation ==
    [][\A u \in TestIds :
          JobStepOf(u) =>
            /\ \A v \in TestIds \ { u } : SameJob(v)
            /\ loaded_models' = loaded_models
      ]_vars

\* Two runs on the same model overlap: the first is still suspended in a
\* generate_text call, untouched, while the second, started after it, has
\* run to its end
C30_Witness ==
    \E u, v \in TestIds :
        /\ u # v
        /\ Exists(u) /\ Exists(v)
        /\ test_results[u].model_id = test_results[v].model_id
        /\ test_results[u].started_at < test_results[v].started_at
        /\ test_results[u].status = "running"
        /\ tasks[u].pc = "suspended"
        /\ tasks[u].j = 1
        /\ test_results[u].results = << >>
        /\ test_results[v].status = "completed"
        /\ test_results[v].completed_tests = 1

(***************************************************************************)
(* Claims about single runs under a fair event loop, checked under         *)
(* SpecOneRunFair                                                          *)
(***************************************************************************)
\* C21: with an event loop that runs every ready task and a backend that
\* answers every generate_text call, every record that is not deleted gets a
\* status among "completed", "failed" and "cancelled", a record with such a
\* status keeps that status as long as it exists, and every handle is removed from
\* running_tests in the end.
C21_RunsTerminate ==
    /\ \A u \in OneRunIds : Exists(u) ~> (~Exists(u) \/ IsTerminal(u))
    /\ [][\A u \in OneRunIds :
             (IsTerminal(u) /\ ExistsAfter(u)) =>
                        test_results'[u].status = test_results[u].status]_vars
    /\ \A u \in OneRunIds : (u \in running_tests) ~> (u \notin running_tests)

\* A run of two tests has gone through all its generate_text calls and has
\* completed; its handle is removed
C21_Witness ==
    \E u \in TestIds :
        /\ Exists(u)
        /\ test_results[u].status = "completed"
        /\ test_results[u].completed_tests = 2
        /\ tasks[u].pc = "done"
        /\ u \notin running_tests

(***************************************************************************)
(* Claims about the summary of GET /status, checked under SpecQueries      *)
(***************************************************************************)
\* C31: the summary GET /status returns for an id that has a record holds
\* the status, the progress, completed_tests, failed_tests and the
\* overall_score of the record, each as it is in the record at the call.
C31_StatusSummary ==
    [][\A u \in TestIds :
          (Exists(u) /\ StatusStepFor(u)) =>
             LET rec == test_results[u]
                 summary == last'.detail
             IN  /\ summary.status = rec.status
                 /\ summary.completed_tests = rec.completed_tests
                 /\ summary.failed_tests = rec.failed_tests
                 /\ summary.overall_score = rec.overall_score
                 /\ "progress" \in DOMAIN summary
                 /\ summary.progress = rec.progress
      ]_vars

(***************************************************************************)
(* Claims about failing loads, checked under Spec                          *)
(***************************************************************************)
\* C32: a load_model call that raises (unsupported provider, or the backend
\* load raised) leaves every model other than its own as it was: a load that
\* fails with the pool at capacity unloads no model.
C32_FailedLoadFrame ==
    [][ \A id \in ModelIds :
          ( /\ last'.op = "load" /\ last'.ret = "raised" /\ last'.model_id = id
            /\ (LoadStepFor(id) \/ LoadResume(id, FALSE)) )
          => \A k \in Registered \ { id } : loaded_models'[k] = loaded_models[k] ]_vars

\* C33: a model that is loaded stays loaded in every step but an
\* unload_model of it and a load_model of another id that evicts it: the
\* failure of an overlapping load_model call for the same id does not take
\* it out of the loaded models.
C33_LoadedUntilUnloaded ==
    [][ \A k \in LoadedIds :
          k \notin LoadedIdsAfter
          => \/ last'.op = "unload" /\ UnloadModel(k)
             \/ /\ model_to_unload(loaded_models) = k
                /\ \E id \in ModelIds \ { k } : LoadStepFor(id) ]_vars

(***************************************************************************)
(* Claims about the end of a run, checked under SpecOneRun                 *)
(***************************************************************************)
\* C34: once the status of a record is "completed", "failed" or "cancelled",
\* no step gives the record another status: a run cancelled while its task
\* is suspended in a generate_text call does not become completed or failed
\* when the task is resumed, and a completed run cannot be cancelled.
C34_TerminalAbsorbing ==
    [][\A u \in TestIds :
          (IsTerminal(u) /\ ExistsAfter(u)) =>
             /\ test_results'[u].status = test_results[u].status
             /\ u \notin running_tests'
      ]_vars

\* A run was cancelled while its task was suspended in its second test, and
\* the task has since been resumed and has ended: the record is cancelled
C34_Witness ==
    \E u \in TestIds :
        /\ last = JobEvent("cancel", u, "cancelled", << >>)
        /\ Exists(u)
        /\ test_results[u].status = "cancelled"
        /\ tasks[u].pc = "done"
        /\ Len(test_results[u].results) = 1
        /\ Len(test_results[u].test_types) = 2

\* The run u has been deleted: it has a task and no record
Deleted(u) == u \in DOMAIN tasks /\ ~Exists(u)

\* C35: DELETE /results/{test_id} of a running test removes the record and
\* the handle, and no later step brings either back: when the task is
\* resumed with CancelledError it creates no record, writes no result and
\* inserts no handle, so the id is in neither table from then on.
C35_DeletedStaysDeleted ==
    [][\A u \in TestIds :
          /\ (IsRunning(u) /\ DeleteStepFor(u)) =>
                ~ExistsAfter(u) /\ u \notin running_tests'
          /\ Deleted(u) =>
                /\ u \notin running_tests
                /\ ~ExistsAfter(u) /\ u \notin running_tests'
      ]_vars

\* A run has been deleted while its task was suspended in a generate_text
\* call of its second test; the task is still to get its CancelledError
C35_Witness ==
    \E u \in TestIds :
        /\ last = JobEvent("delete", u, "deleted", << >>)
        /\ Deleted(u)
        /\ tasks[u].pc = "suspended"
        /\ tasks[u].i = 2
        /\ tasks[u].must_cancel

\* C36: a completed run holds one entry in results per test of its request:
\* the number of entries is completed_tests + failed_tests, which is
\* len(test_types), also for a request that names a test more than once.
C36_OneEntryPerTest ==
    \A u \in TestIds :
        (Exists(u) /\ test_results[u].status = "completed") =>
            LET rec == test_results[u]
            IN  /\ rec.completed_tests + rec.failed_tests = Len(rec.test_types)
                /\ Len(rec.results) = rec.completed_tests + rec.failed_tests

\* C37: a POST /run with an empty test_types list for a loaded model is
\* accepted, and its record never gets the status "failed": when the task
\* runs, the record is completed with progress 1.0, completed_tests 0,
\* failed_tests 0, empty results and overall_score 0.
C37_EmptyTestList ==
    [][ /\ \A r \in LongTestRequests :
             (r.test_types = << >> /\ r.model_id \in LoadedIds /\ RunStepFor(r))
             => /\ last'.ret = "started"
                /\ test_results'[last'.test_id] = NewTestRecord(r, now)
        /\ \A u \in TestIds :
             (ExistsAfter(u) /\ test_results'[u].test_types = << >>)
             => /\ test_results'[u].status # "failed"
                /\ (Exists(u) /\ TaskStart(u))
                   => /\ test_results'[u].status = "completed"
                      /\ test_results'[u].progress = One
                      /\ test_results'[u].completed_tests = 0
                      /\ test_results'[u].failed_tests = 0
                      /\ test_results'[u].results = << >>
                      /\ test_results'[u].overall_score = Zero ]_vars

\* A run of no tests has completed
C37_Witness ==
    \E u \in TestIds :
        /\ Exists(u)
        /\ test_results[u].test_types = << >>
        /\ test_results[u].total_tests = 0
        /\ test_results[u].status = "completed"
        /\ test_results[u].overall_score = Zero
        /\ tasks[u].pc = "done"

(***************************************************************************)
(* Claims about the number of runs, checked under SpecManyRuns             *)
(***************************************************************************)
\* The runs with status "running"
RunningIds == { u \in DOMAIN test_results : test_results[u].status = "running" }

\* C38: in every state at most MAX_CONCURRENT_TESTS records have the status
\* "running".
C38_ConcurrentRunsBound == Cardinality(RunningIds) <= MAX_CONCURRENT_TESTS

====
